---- MODULE Spec2Model ----
(***************************************************************************)
(* NearEarthObjects (src/main.py): construction with optional default      *)
(* dates, and get_neos_by_date_range: date parsing, the 7-day range check, *)
(* the single HTTP GET and the flattening of the JSON feed into a table.   *)
(*                                                                         *)
(* Strings that the code parses or formats (the dates) are sequences of    *)
(* one-character strings, so that strptime and strftime are real           *)
(* conversions.  Other strings (field names, JSON scalars, column names)   *)
(* are TLA+ strings; column names are built with \o as the code builds     *)
(* them with +.  A Python dict is a sequence of <<key, value>> pairs in    *)
(* insertion order, except an object record of the feed, which is a        *)
(* function from its field names (a missing field is a missing key).       *)
(***************************************************************************)
EXTENDS Integers, Sequences, FiniteSets, TLC

VARIABLES
    pc,             \* position of the program: "new", "ready", "check", "fetch",
                    \* "flatten", "returned", "raised"
    arg_start_date, \* __init__ argument start_date (None or a string)
    arg_finish_date,\* __init__ argument finish_date (None or a string)
    today_dt,       \* the value datetime.today() returns at construction
    api_key,        \* self.api_key
    start_date,     \* self.start_date
    finish_date,    \* self.finish_date
    warned,         \* warnings.warn was called by __init__
    printed,        \* the format message was printed (line 42)
    day_diff_days,  \* the local day_diff_days: <<>> while unbound, <<n>> once assigned
    requests_get,   \* the URLs handed to requests.get, in call order
    status_code,    \* neo_data.status_code (0 before any response)
    neos,           \* neo_data.json()['near_earth_objects']
    di,             \* loop position: index of the date being iterated (line 64)
    li,             \* loop position: index in that date's list (line 65)
    clean_df,       \* the local clean_df
    origin,         \* for each row of clean_df, the <<di, li>> of the record it came from
    error,          \* the exception that left get_neos_by_date_range, if any
    result          \* the value get_neos_by_date_range returned, if any

vars == <<pc, arg_start_date, arg_finish_date, today_dt, api_key, start_date,
          finish_date, warned, printed, day_diff_days, requests_get, status_code,
          neos, di, li, clean_df, origin, error, result>>

-----------------------------------------------------------------------------
(* Python values *)

None == <<"None">>

NaN == "NaN"

Unbound == <<>>

NoError == [type |-> "none"]

NoResult == [returned |-> FALSE]

-----------------------------------------------------------------------------
(* datetime: calendar arithmetic as datetime.py does it *)

DigitChars == <<"0", "1", "2", "3", "4", "5", "6", "7", "8", "9">>

IsDigit(c) == \E i \in 1..10 : DigitChars[i] = c

DigitVal(c) == (CHOOSE i \in 1..10 : DigitChars[i] = c) - 1

IsLeap(year) == year % 4 = 0 /\ (year % 100 # 0 \/ year % 400 = 0)

DaysInMonth(year, month) ==
    IF month = 2 THEN (IF IsLeap(year) THEN 29 ELSE 28)
    ELSE IF month \in {4, 6, 9, 11} THEN 30 ELSE 31

RECURSIVE DaysBeforeMonth(_, _)
DaysBeforeMonth(year, month) ==
    IF month = 1 THEN 0
    ELSE DaysBeforeMonth(year, month - 1) + DaysInMonth(year, month - 1)

DaysBeforeYear(year) ==
    LET y == year - 1
    IN  y * 365 + (y \div 4) - (y \div 100) + (y \div 400)

\* datetime.toordinal(): 1 is 0001-01-01
ToOrdinal(dt) ==
    DaysBeforeYear(dt.year) + DaysBeforeMonth(dt.year, dt.month) + dt.day

\* datetime.fromordinal(n), the algorithm of _ord2ymd
FromOrdinal(ord) ==
    LET n0   == ord - 1
        n400 == n0 \div 146097
        r400 == n0 % 146097
        n100 == r400 \div 36524
        r100 == r400 % 36524
        n4   == r100 \div 1461
        r4   == r100 % 1461
        n1   == r4 \div 365
        n    == r4 % 365
        year == n400 * 400 + 1 + n100 * 100 + n4 * 4 + n1
        guess == (n + 50) \div 32
        before(m) == DaysBeforeMonth(year, m)
        month == IF before(guess) > n THEN guess - 1 ELSE guess
    IN  IF n1 = 4 \/ n100 = 4
        THEN [year |-> year - 1, month |-> 12, day |-> 31]
        ELSE [year |-> year, month |-> month, day |-> n - before(month) + 1]

\* datetime + timedelta(days=k)
AddDays(dt, k) == FromOrdinal(ToOrdinal(dt) + k)

\* (a - b).days for two datetimes at midnight
DaysBetween(a, b) == ToOrdinal(a) - ToOrdinal(b)

-----------------------------------------------------------------------------
(* strptime(s, '%Y-%m-%d') and strftime('%Y-%m-%d') *)

\* the lengths matched at position p by the alternatives of %m, 1[0-2]|0[1-9]|[1-9],
\* in the order the regex engine tries them
MonthAlts(s, p) ==
    (IF p + 1 <= Len(s) /\ s[p] = "1" /\ s[p + 1] \in {"0", "1", "2"}
     THEN <<2>> ELSE <<>>)
    \o (IF p + 1 <= Len(s) /\ s[p] = "0" /\ IsDigit(s[p + 1]) /\ s[p + 1] # "0"
        THEN <<2>> ELSE <<>>)
    \o (IF p <= Len(s) /\ IsDigit(s[p]) /\ s[p] # "0" THEN <<1>> ELSE <<>>)

\* the same for %d, 3[01]|[12]\d|0[1-9]|[1-9]| [1-9]
DayAlts(s, p) ==
    (IF p + 1 <= Len(s) /\ s[p] = "3" /\ s[p + 1] \in {"0", "1"}
     THEN <<2>> ELSE <<>>)
    \o (IF p + 1 <= Len(s) /\ s[p] \in {"1", "2"} /\ IsDigit(s[p + 1])
        THEN <<2>> ELSE <<>>)
    \o (IF p + 1 <= Len(s) /\ s[p] = "0" /\ IsDigit(s[p + 1]) /\ s[p + 1] # "0"
        THEN <<2>> ELSE <<>>)
    \o (IF p <= Len(s) /\ IsDigit(s[p]) /\ s[p] # "0" THEN <<1>> ELSE <<>>)
    \o (IF p + 1 <= Len(s) /\ s[p] = " " /\ IsDigit(s[p + 1]) /\ s[p + 1] # "0"
        THEN <<2>> ELSE <<>>)

\* int() of the characters s[p .. p+n-1], blanks skipped
RECURSIVE IntOf(_, _, _)
IntOf(s, p, n) ==
    IF n = 0 THEN 0
    ELSE IF s[p + n - 1] = " " THEN IntOf(s, p, n - 1)
    ELSE IntOf(s, p, n - 1) * 10 + DigitVal(s[p + n - 1])

\* re.match of (\d\d\d\d)-(%m)-(%d) on s: the first way, in backtracking order,
\* to match the whole pattern; [found |-> FALSE] when there is none
RegexMatch(s) ==
    IF ~(Len(s) >= 5 /\ (\A i \in 1..4 : IsDigit(s[i])) /\ s[5] = "-")
    THEN [found |-> FALSE]
    ELSE LET alts == MonthAlts(s, 6)
             good(i) == /\ 6 + alts[i] <= Len(s)
                        /\ s[6 + alts[i]] = "-"
                        /\ DayAlts(s, 7 + alts[i]) # <<>>
             ok == {i \in 1..Len(alts) : good(i)}
         IN  IF ok = {} THEN [found |-> FALSE]
             ELSE LET i  == CHOOSE j \in ok : \A k \in ok : j <= k
                      lm == alts[i]
                      ld == Head(DayAlts(s, 7 + lm))
                  IN  [found |-> TRUE,
                       Y |-> IntOf(s, 1, 4),
                       m |-> IntOf(s, 6, lm),
                       d |-> IntOf(s, 7 + lm, ld),
                       end |-> 6 + lm + ld]

\* datetime.strptime(s, '%Y-%m-%d'): [ok |-> FALSE] stands for ValueError
StrPTime(s) ==
    LET found == RegexMatch(s)
    IN  IF ~found.found THEN [ok |-> FALSE]
        ELSE IF found.end # Len(s) THEN [ok |-> FALSE]
        ELSE IF found.Y < 1 THEN [ok |-> FALSE]
        ELSE IF found.d > DaysInMonth(found.Y, found.m) THEN [ok |-> FALSE]
        ELSE [ok |-> TRUE, year |-> found.Y, month |-> found.m, day |-> found.d]

\* n in decimal, zero-padded to w characters
RECURSIVE Pad(_, _)
Pad(n, w) ==
    IF w = 0 THEN <<>> ELSE Pad(n \div 10, w - 1) \o <<DigitChars[(n % 10) + 1]>>

\* dt.strftime('%Y-%m-%d')
StrFTime(dt) == Pad(dt.year, 4) \o <<"-">> \o Pad(dt.month, 2) \o <<"-">> \o Pad(dt.day, 2)

-----------------------------------------------------------------------------
(* Inputs *)

MaxRecords == 2     \* object records in one feed payload, over all its dates

MaxRangeDays == 7   \* the range limit tested at line 45

DefaultDays == 7    \* timedelta(days=7) of __init__, line 17

AlternativeDays == 7 \* timedelta(days=7) of line 46

HttpOk == 200       \* the status tested at line 57

\* date strings a caller may supply: well-formed ones (a week, a range of 9 days,
\* ranges over a year end and over a leap day, an unpadded date that strptime
\* accepts) and malformed ones (another format, a day the month does not have,
\* characters left over)
DateInputs ==
    { <<"2", "0", "2", "4", "-", "0", "1", "-", "0", "1">>,  \* 2024-01-01
      <<"2", "0", "2", "4", "-", "0", "1", "-", "0", "8">>,  \* 2024-01-08
      <<"2", "0", "2", "4", "-", "0", "1", "-", "1", "0">>,  \* 2024-01-10
      <<"2", "0", "2", "3", "-", "1", "2", "-", "2", "8">>,  \* 2023-12-28
      <<"2", "0", "2", "4", "-", "0", "2", "-", "2", "6">>,  \* 2024-02-26
      <<"2", "0", "2", "4", "-", "0", "3", "-", "0", "4">>,  \* 2024-03-04
      <<"2", "0", "2", "4", "-", "1", "-", "5">>,  \* 2024-1-5
      <<"0", "1", "/", "0", "1", "/", "2", "0", "2", "4">>,  \* 01/01/2024
      <<"2", "0", "2", "3", "-", "0", "2", "-", "2", "9">>,  \* 2023-02-29
      <<"2", "0", "2", "4", "-", "0", "1", "-", "0", "1", "2">> }  \* 2024-01-012

\* values datetime.today() may return
Todays ==
    { [year |-> 2026, month |-> 11, day |-> 5],
      [year |-> 2024, month |-> 2, day |-> 23],
      [year |-> 2025, month |-> 12, day |-> 28] }

\* the few dates the constructor is given where the feed is what is explored:
\* a week, either way round
FeedDateInputs ==
    { <<"2", "0", "2", "4", "-", "0", "1", "-", "0", "1">>,  \* 2024-01-01
      <<"2", "0", "2", "4", "-", "0", "1", "-", "0", "8">> }  \* 2024-01-08

FeedTodays == { [year |-> 2026, month |-> 11, day |-> 5] }

ApiKeys == {"DEMO_KEY"}

StatusCodes == {200, 404, 429}

NoDate == [year |-> 0, month |-> 0, day |-> 0]

-----------------------------------------------------------------------------
(* The feed: object records as the API delivers them *)

Approach1 ==
    [close_approach_date |-> "2024-01-01",
     close_approach_date_full |-> "2024-Jan-01 00:00",
     orbiting_body |-> "Earth",
     relative_velocity |-> << <<"kilometers_per_second", "10.5">> >>,
     miss_distance |-> << <<"kilometers", "50000">> >>]

Approach2 ==
    [close_approach_date |-> "2024-01-02",
     close_approach_date_full |-> "2024-Jan-02 12:30",
     orbiting_body |-> "Earth",
     relative_velocity |-> << <<"kilometers_per_second", "7.25">> >>,
     miss_distance |-> << <<"kilometers", "81000">> >>]

\* a later approach of the same object: other values, other units
ApproachLater ==
    [close_approach_date |-> "2031-05-09",
     close_approach_date_full |-> "2031-May-09 03:15",
     orbiting_body |-> "Mars",
     relative_velocity |-> << <<"kilometers_per_second", "99.9">>,
                              <<"miles_per_hour", "223000">> >>,
     miss_distance |-> << <<"kilometers", "123">>, <<"lunar", "0.3">> >>]

ApproachMiles ==
    [close_approach_date |-> "2024-01-01",
     close_approach_date_full |-> "2024-Jan-01 18:45",
     orbiting_body |-> "Earth",
     relative_velocity |-> << <<"kilometers_per_second", "3.5">>,
                              <<"miles_per_hour", "7829">> >>,
     miss_distance |-> << <<"astronomical", "0.02">>, <<"kilometers", "2991000">> >>]

DiameterKm(lo, hi) ==
    << <<"kilometers", << <<"estimated_diameter_min", lo>>,
                          <<"estimated_diameter_max", hi>> >> >> >>

DiameterKmMiles(lo, hi, mlo, mhi) ==
    DiameterKm(lo, hi)
    \o << <<"miles", << <<"estimated_diameter_min", mlo>>,
                        <<"estimated_diameter_max", mhi>> >> >> >>

\* the example record of the feed: one link, one approach
RecA ==
    [links |-> << <<"self", "http://api.nasa.gov/neo/rest/v1/neo/1">> >>,
     id |-> "1", neo_reference_id |-> "1", name |-> "A", nasa_jpl_url |-> "u1",
     absolute_magnitude_h |-> "20.1",
     is_potentially_hazardous_asteroid |-> "false", is_sentry_object |-> "false",
     estimated_diameter |-> DiameterKm("0.1", "0.2"),
     close_approach_data |-> <<Approach1>>]

\* the keys of RecA with other values, and a second close approach
RecTwoApproaches ==
    [links |-> << <<"self", "http://api.nasa.gov/neo/rest/v1/neo/2">> >>,
     id |-> "2", neo_reference_id |-> "2", name |-> "B", nasa_jpl_url |-> "u2",
     absolute_magnitude_h |-> "17.4",
     is_potentially_hazardous_asteroid |-> "true", is_sentry_object |-> "false",
     estimated_diameter |-> DiameterKm("0.9", "2.0"),
     close_approach_data |-> <<Approach2, ApproachLater>>]

\* an empty links mapping
RecNoLinks ==
    [links |-> <<>>,
     id |-> "3", neo_reference_id |-> "3", name |-> "C", nasa_jpl_url |-> "u3",
     absolute_magnitude_h |-> "25.0",
     is_potentially_hazardous_asteroid |-> "false", is_sentry_object |-> "true",
     estimated_diameter |-> DiameterKm("0.01", "0.03"),
     close_approach_data |-> <<Approach1>>]

\* two entries in links, and other unit systems
RecTwoLinks ==
    [links |-> << <<"self", "http://api.nasa.gov/neo/rest/v1/neo/4">>,
                  <<"next", "http://api.nasa.gov/neo/rest/v1/neo/5">> >>,
     id |-> "4", neo_reference_id |-> "4", name |-> "D", nasa_jpl_url |-> "u4",
     absolute_magnitude_h |-> "22.2",
     is_potentially_hazardous_asteroid |-> "false", is_sentry_object |-> "false",
     estimated_diameter |-> DiameterKmMiles("0.1", "0.3", "0.06", "0.19"),
     close_approach_data |-> <<ApproachMiles>>]

\* no 'name'
RecNoName ==
    [links |-> << <<"self", "http://api.nasa.gov/neo/rest/v1/neo/6">> >>,
     id |-> "6", neo_reference_id |-> "6", nasa_jpl_url |-> "u6",
     absolute_magnitude_h |-> "19.9",
     is_potentially_hazardous_asteroid |-> "false", is_sentry_object |-> "false",
     estimated_diameter |-> DiameterKm("0.2", "0.4"),
     close_approach_data |-> <<Approach1>>]

\* no 'is_sentry_object', the last general field read
RecNoSentry ==
    [links |-> << <<"self", "http://api.nasa.gov/neo/rest/v1/neo/8">> >>,
     id |-> "8", neo_reference_id |-> "8", name |-> "H", nasa_jpl_url |-> "u8",
     absolute_magnitude_h |-> "23.5",
     is_potentially_hazardous_asteroid |-> "true",
     estimated_diameter |-> DiameterKm("0.05", "0.11"),
     close_approach_data |-> <<Approach2>>]

\* an empty close-approach list
RecNoApproach ==
    [links |-> << <<"self", "http://api.nasa.gov/neo/rest/v1/neo/7">> >>,
     id |-> "7", neo_reference_id |-> "7", name |-> "G", nasa_jpl_url |-> "u7",
     absolute_magnitude_h |-> "21.0",
     is_potentially_hazardous_asteroid |-> "false", is_sentry_object |-> "false",
     estimated_diameter |-> DiameterKm("0.2", "0.4"),
     close_approach_data |-> <<>>]

Records ==
    {RecA, RecTwoApproaches, RecNoLinks, RecTwoLinks, RecNoName, RecNoSentry,
     RecNoApproach}

RECURSIVE SumSeq(_)
SumSeq(q) == IF q = <<>> THEN 0 ELSE Head(q) + SumSeq(Tail(q))

\* the dates a payload may hold, in the order the feed delivers them
DateKeys == <<"2024-01-01", "2024-01-02">>

\* the payload whose i-th date holds sizes[i] records, taken in order from recs
MkPayload(recs, sizes) ==
    [i \in 1..Len(sizes) |->
        <<DateKeys[i],
          SubSeq(recs, SumSeq(SubSeq(sizes, 1, i - 1)) + 1,
                       SumSeq(SubSeq(sizes, 1, i)))>>]

\* every mapping of the first dates of DateKeys to lists of records, at most
\* MaxRecords records in all
Payloads ==
    UNION { { MkPayload(recs, sizes) : recs \in [1..SumSeq(sizes) -> Records] } :
            sizes \in { q \in UNION {[1..k -> 0..MaxRecords] : k \in 0..Len(DateKeys)} :
                        SumSeq(q) <= MaxRecords } }

\* the few payloads fetched where the dates are what is explored
SamplePayloads ==
    { <<>>,
      MkPayload(<<RecA>>, <<1>>),
      MkPayload(<<RecA, RecTwoLinks>>, <<1, 1>>),
      MkPayload(<<RecA, RecNoName>>, <<2>>) }

-----------------------------------------------------------------------------
(* pandas: a DataFrame is its column labels and its rows, each row a function *)
(* from the column labels; every frame built here has the index 0..n-1       *)

Range(q) == {q[i] : i \in DOMAIN q}

Max(a, b) == IF a >= b THEN a ELSE b

\* dict[k], the dict a sequence of <<key, value>> pairs
Lookup(d, k) == d[CHOOSE i \in DOMAIN d : d[i][1] = k][2]

\* pd.DataFrame()
PdDataFrame == [columns |-> <<>>, rows |-> <<>>]

\* pd.DataFrame(d, index=range(0, 1)), d a dict of scalars: one row
DataFrameOneRow(d) ==
    [columns |-> [i \in DOMAIN d |-> d[i][1]],
     rows |-> << [c \in {d[i][1] : i \in DOMAIN d} |-> Lookup(d, c)] >>]

\* df.columns = cols
SetColumns(df, cols) ==
    [columns |-> cols,
     rows |-> [r \in DOMAIN df.rows |->
                 [c \in Range(cols) |->
                     df.rows[r][df.columns[CHOOSE i \in DOMAIN cols : cols[i] = c]]]]]

\* pd.concat([a, b], axis=1): the columns side by side, the rows joined on the
\* union of the two indexes, NaN where a frame has no such row
ConcatAxis1(a, b) ==
    [columns |-> a.columns \o b.columns,
     rows |-> [r \in 1..Max(Len(a.rows), Len(b.rows)) |->
                 [c \in Range(a.columns) \cup Range(b.columns) |->
                     IF c \in Range(a.columns)
                     THEN (IF r <= Len(a.rows) THEN a.rows[r][c] ELSE NaN)
                     ELSE (IF r <= Len(b.rows) THEN b.rows[r][c] ELSE NaN)]]]

\* pd.concat([a, b], axis=0): the rows of a, then those of b, over the union of
\* the columns, NaN where a frame has no such column
ConcatAxis0(a, b) ==
    LET cols == a.columns \o SelectSeq(b.columns, LAMBDA c : c \notin Range(a.columns))
        fill(df, r) == [c \in Range(cols) |->
                           IF c \in Range(df.columns) THEN df.rows[r][c] ELSE NaN]
    IN  [columns |-> cols,
         rows |-> [r \in 1..Len(a.rows) |-> fill(a, r)]
                  \o [r \in 1..Len(b.rows) |-> fill(b, r)]]


-----------------------------------------------------------------------------
(* __init__, lines 11-22 *)

\* line 13: start_date is None or finish_date is None
UseDefaults(s, f) == s = None \/ f = None

\* a default range one day too long
DefaultEnd_OneDayMore(start_dt) == AddDays(start_dt, DefaultDays + 1)

\* line 17: end_dt = start_dt + timedelta(days=7)
DefaultEnd(start_dt) == AddDays(start_dt, DefaultDays)

Init ==
    /\ pc = "new"
    /\ arg_start_date = None
    /\ arg_finish_date = None
    /\ today_dt = NoDate
    /\ api_key = None
    /\ start_date = None
    /\ finish_date = None
    /\ warned = FALSE
    /\ printed = FALSE
    /\ day_diff_days = Unbound
    /\ requests_get = <<>>
    /\ status_code = 0
    /\ neos = <<>>
    /\ di = 0
    /\ li = 0
    /\ clean_df = PdDataFrame
    /\ origin = <<>>
    /\ error = NoError
    /\ result = NoResult

\* __init__ with dates drawn from dates (or absent) and today from todays
Construct(dates, todays) ==
    /\ pc = "new"
    /\ \E key \in ApiKeys, s \in dates \cup {None}, f \in dates \cup {None} :
         /\ arg_start_date' = s
         /\ arg_finish_date' = f
         /\ api_key' = <<key>>
         /\ IF UseDefaults(s, f)
            THEN \E start_dt \in todays :
                   /\ warned' = TRUE
                   /\ today_dt' = start_dt
                   /\ start_date' = StrFTime(start_dt)
                   /\ finish_date' = StrFTime(DefaultEnd(start_dt))
            ELSE /\ warned' = FALSE
                 /\ today_dt' = today_dt
                 /\ start_date' = s
                 /\ finish_date' = f
    /\ pc' = "ready"
    /\ UNCHANGED <<printed, day_diff_days, requests_get, status_code, neos, di, li,
                   clean_df, origin, error, result>>

-----------------------------------------------------------------------------
(* get_neos_by_date_range, lines 36-58: validation and fetch *)

\* an except branch that prints and raises again
ExceptValueError_Reraise ==
    /\ printed' = TRUE
    /\ pc' = "raised"
    /\ error' = [type |-> "ValueError", kind |-> "format"]
    /\ UNCHANGED day_diff_days

\* lines 41-42: the except branch prints and falls through to line 45
ExceptValueError ==
    /\ printed' = TRUE
    /\ pc' = "check"
    /\ UNCHANGED <<day_diff_days, error>>

\* lines 38-42
ParseDates ==
    /\ pc = "ready"
    /\ LET finish == StrPTime(finish_date)
           start  == StrPTime(start_date)
       IN  IF finish.ok /\ start.ok
           THEN /\ day_diff_days' = <<DaysBetween(finish, start)>>
                /\ pc' = "check"
                /\ UNCHANGED <<printed, error>>
           ELSE ExceptValueError
    /\ UNCHANGED <<arg_start_date, arg_finish_date, today_dt, api_key, start_date,
                   finish_date, warned, requests_get, status_code, neos, di, li,
                   clean_df, origin, result>>

\* a range check that rejects a range of exactly the limit
RangeTooLarge_AtLimit(days) == days >= MaxRangeDays

\* line 45
RangeTooLarge(days) == days > MaxRangeDays

\* a suggestion one day short
AlternativeEndDateStr_OneDayLess(start) ==
    StrFTime(AddDays(StrPTime(start), AlternativeDays - 1))

\* lines 46-47
AlternativeEndDateStr(start) ==
    StrFTime(AddDays(StrPTime(start), AlternativeDays))

\* lines 45-51; reading the unbound local raises UnboundLocalError
CheckRange ==
    /\ pc = "check"
    /\ IF day_diff_days = Unbound
       THEN /\ pc' = "raised"
            /\ error' = [type |-> "UnboundLocalError", name |-> "day_diff_days"]
       ELSE IF RangeTooLarge(day_diff_days[1])
       THEN /\ pc' = "raised"
            /\ error' = [type |-> "ValueError", kind |-> "range",
                         day_diff_days |-> day_diff_days[1],
                         alternative_end_date_str |->
                             AlternativeEndDateStr(start_date)]
       ELSE /\ pc' = "fetch"
            /\ error' = error
    /\ UNCHANGED <<arg_start_date, arg_finish_date, today_dt, api_key, start_date,
                   finish_date, warned, printed, day_diff_days, requests_get,
                   status_code, neos, di, li, clean_df, origin, result>>

\* line 54: the f-string, kept as its parts
NeoDateRangeUrl ==
    <<<<"https://api.nasa.gov/neo/rest/v1/feed?start_date=">>, start_date,
      <<"&end_date=">>, finish_date, <<"&api_key=">>, api_key>>

\* a status check that rejects 404 only
StatusOk_Not404(code) == code # 404

\* line 57, negated
StatusOk(code) == code = HttpOk

\* lines 54-63, the response drawn from StatusCodes and payloads
Fetch(payloads) ==
    /\ pc = "fetch"
    /\ requests_get' = Append(requests_get, NeoDateRangeUrl)
    /\ \E code \in StatusCodes :
         /\ status_code' = code
         /\ IF StatusOk(code)
            THEN /\ \E payload \in payloads : neos' = payload
                 /\ pc' = "flatten"
                 /\ di' = 1
                 /\ li' = 1
                 /\ error' = error
            ELSE /\ pc' = "raised"
                 /\ error' = [type |-> "ValueError", kind |-> "status",
                              status_code |-> code]
                 /\ UNCHANGED <<neos, di, li>>
    /\ UNCHANGED <<arg_start_date, arg_finish_date, today_dt, api_key, start_date,
                   finish_date, warned, printed, day_diff_days, clean_df, origin,
                   result>>

-----------------------------------------------------------------------------
(* get_neos_by_date_range, lines 63-109: flattening *)

\* lines 67-73
UnnestedGeneralKeys ==
    <<"links", "id", "name", "nasa_jpl_url", "absolute_magnitude_h",
      "is_potentially_hazardous_asteroid", "is_sentry_object">>

\* lines 89-90
UnnestedApproachKeys == <<"close_approach_date_full", "orbiting_body">>

\* lines 95-96
NestedApproachKeys == <<"relative_velocity", "miss_distance">>

\* the first key of keys that obj lacks, as <<key>>; <<>> when it has them all
FirstMissing(obj, keys) ==
    LET missing == {i \in DOMAIN keys : keys[i] \notin DOMAIN obj}
    IN  IF missing = {} THEN <<>>
        ELSE <<keys[CHOOSE i \in missing : \A j \in missing : i <= j]>>

KeyError(k) == [type |-> "KeyError", key |-> k]

IndexError == [type |-> "IndexError", key |-> "close_approach_data"]

\* the last approach instead of the first
SelectApproach_Last(close_approach_data) ==
    close_approach_data[Len(close_approach_data)]

\* line 88: list_item['close_approach_data'][0]
SelectApproach(close_approach_data) == close_approach_data[1]

\* the exception one pass of the loop body raises on list_item, NoError if none,
\* in the order of the subscripts of lines 74, 79, 88, 91 and 99
ItemError(list_item) ==
    IF FirstMissing(list_item, UnnestedGeneralKeys) # <<>>
    THEN KeyError(FirstMissing(list_item, UnnestedGeneralKeys)[1])
    ELSE IF "estimated_diameter" \notin DOMAIN list_item
    THEN KeyError("estimated_diameter")
    ELSE IF "close_approach_data" \notin DOMAIN list_item
    THEN KeyError("close_approach_data")
    ELSE IF list_item.close_approach_data = <<>>
    THEN IndexError
    ELSE LET approach_data_dict == SelectApproach(list_item.close_approach_data)
             missing == FirstMissing(approach_data_dict,
                                     UnnestedApproachKeys \o NestedApproachKeys)
         IN  IF missing # <<>> THEN KeyError(missing[1]) ELSE NoError

\* lines 74-76: pd.DataFrame of a dict whose 'links' value is itself a dict and
\* whose other values are scalars: the index is the keys of 'links', one row
\* per key, the scalars repeated; reset_index then numbers the rows
UnnestedGeneralDf(list_item) ==
    [columns |-> UnnestedGeneralKeys,
     rows |-> [r \in DOMAIN list_item.links |->
                 [k \in Range(UnnestedGeneralKeys) |->
                     IF k = "links" THEN list_item.links[r][2] ELSE list_item[k]]]]

\* a size column named without its unit system
SizeColumn_NoUnit(k_size, x) == "size_" \o x

\* line 83
SizeColumn(k_size, x) == "size_" \o k_size \o "_" \o x

\* lines 80-85, the first n items of size_dict
RECURSIVE SizeDf(_, _)
SizeDf(size_dict, n) ==
    IF n = 0 THEN PdDataFrame
    ELSE LET k_size  == size_dict[n][1]
             mini_df == DataFrameOneRow(size_dict[n][2])
             cols_fix == [i \in DOMAIN mini_df.columns |->
                             SizeColumn(k_size, mini_df.columns[i])]
         IN  ConcatAxis1(SizeDf(size_dict, n - 1), SetColumns(mini_df, cols_fix))

\* lines 91-92
ApproachDf(approach_data_dict) ==
    DataFrameOneRow([i \in DOMAIN UnnestedApproachKeys |->
                        <<UnnestedApproachKeys[i],
                          approach_data_dict[UnnestedApproachKeys[i]]>>])

\* line 100
NestedColumn(ap, x) == ap \o "_" \o x

\* lines 97-102, the first n of nested_approach_keys: each new frame goes in front
RECURSIVE NestedApproachDf(_, _)
NestedApproachDf(approach_data_dict, n) ==
    IF n = 0 THEN PdDataFrame
    ELSE LET ap == NestedApproachKeys[n]
             temp_df == DataFrameOneRow(approach_data_dict[ap])
             nested_cols_fixed == [i \in DOMAIN temp_df.columns |->
                                      NestedColumn(ap, temp_df.columns[i])]
         IN  ConcatAxis1(SetColumns(temp_df, nested_cols_fixed),
                         NestedApproachDf(approach_data_dict, n - 1))

\* lines 66-106: the frame one object record gives
CombinedDf(list_item) ==
    LET approach_data_dict == SelectApproach(list_item.close_approach_data)
    IN  ConcatAxis1(
            ConcatAxis1(
                ConcatAxis1(UnnestedGeneralDf(list_item),
                            SizeDf(list_item.estimated_diameter,
                                   Len(list_item.estimated_diameter))),
                ApproachDf(approach_data_dict)),
            NestedApproachDf(approach_data_dict, Len(NestedApproachKeys)))

\* a loop that skips the record it cannot flatten
RaiseFromLoop_Skip(exc) ==
    /\ li' = li + 1
    /\ UNCHANGED <<pc, error, clean_df, origin, di, result>>

\* an exception leaves the loop: the locals are gone, nothing is returned
RaiseFromLoop(exc) ==
    /\ pc' = "raised"
    /\ error' = exc
    /\ clean_df' = PdDataFrame
    /\ origin' = <<>>
    /\ UNCHANGED <<di, li, result>>

\* lines 65-107: one pass of the inner loop
FlattenItem ==
    /\ pc = "flatten"
    /\ di <= Len(neos)
    /\ li <= Len(neos[di][2])
    /\ LET list_item == neos[di][2][li]
       IN  IF ItemError(list_item) # NoError
           THEN RaiseFromLoop(ItemError(list_item))
           ELSE LET combined_df == CombinedDf(list_item)
                IN  /\ clean_df' = ConcatAxis0(clean_df, combined_df)
                    /\ origin' = origin \o [r \in DOMAIN combined_df.rows |-> <<di, li>>]
                    /\ li' = li + 1
                    /\ UNCHANGED <<pc, di, error, result>>
    /\ UNCHANGED <<arg_start_date, arg_finish_date, today_dt, api_key, start_date,
                   finish_date, warned, printed, day_diff_days, requests_get,
                   status_code, neos>>

\* line 64: the inner loop is exhausted, the outer loop takes the next date
NextDate ==
    /\ pc = "flatten"
    /\ di <= Len(neos)
    /\ li > Len(neos[di][2])
    /\ di' = di + 1
    /\ li' = 1
    /\ UNCHANGED <<pc, arg_start_date, arg_finish_date, today_dt, api_key, start_date,
                   finish_date, warned, printed, day_diff_days, requests_get,
                   status_code, neos, clean_df, origin, error, result>>

\* line 109
Return ==
    /\ pc = "flatten"
    /\ di > Len(neos)
    /\ pc' = "returned"
    /\ result' = [returned |-> TRUE, value |-> clean_df]
    /\ UNCHANGED <<arg_start_date, arg_finish_date, today_dt, api_key, start_date,
                   finish_date, warned, printed, day_diff_days, requests_get,
                   status_code, neos, di, li, clean_df, origin, error>>

\* every date input, a few payloads
Next ==
    \/ Construct(DateInputs, Todays)
    \/ ParseDates
    \/ CheckRange
    \/ Fetch(SamplePayloads)
    \/ FlattenItem
    \/ NextDate
    \/ Return

Spec == Init /\ [][Next]_vars

\* a few date inputs, every payload
NextFeed ==
    \/ Construct(FeedDateInputs, FeedTodays)
    \/ ParseDates
    \/ CheckRange
    \/ Fetch(Payloads)
    \/ FlattenItem
    \/ NextDate
    \/ Return

SpecFeed == Init /\ [][NextFeed]_vars

-----------------------------------------------------------------------------
(* Properties *)

WellFormed(s) == StrPTime(s).ok

BothWellFormed == WellFormed(start_date) /\ WellFormed(finish_date)

\* (finish - start).days of the stored dates
Span == ToOrdinal(StrPTime(finish_date)) - ToOrdinal(StrPTime(start_date))

BothSupplied == arg_start_date # None /\ arg_finish_date # None

\* s has the shape YYYY-MM-DD
IsoShaped(s) ==
    /\ Len(s) = 10
    /\ s[5] = "-"
    /\ s[8] = "-"
    /\ \A i \in {1, 2, 3, 4, 6, 7, 9, 10} : IsDigit(s[i])

\* the object records of a payload, and their number
RecordsOf(payload) ==
    {payload[d][2][l] : <<d, l>> \in {x \in (DOMAIN payload) \X (1..MaxRecords) :
                                        x[2] <= Len(payload[x[1]][2])}}

RecordCount(payload) == SumSeq([d \in DOMAIN payload |-> Len(payload[d][2])])

GeneralFields ==
    {"links", "id", "name", "nasa_jpl_url", "absolute_magnitude_h",
     "is_potentially_hazardous_asteroid", "is_sentry_object"}

\* a record lacking a general field, or with no close approach
Defective(rec) ==
    \/ \E k \in GeneralFields : k \notin DOMAIN rec
    \/ rec.close_approach_data = <<>>

\* the approach columns an approach entry gives, and the value it gives each
ApproachColumns(entry) ==
    {"close_approach_date_full", "orbiting_body"}
    \cup {"relative_velocity_" \o entry.relative_velocity[i][1] :
             i \in DOMAIN entry.relative_velocity}
    \cup {"miss_distance_" \o entry.miss_distance[i][1] :
             i \in DOMAIN entry.miss_distance}

ApproachValue(entry, c) ==
    IF c = "close_approach_date_full" THEN entry.close_approach_date_full
    ELSE IF c = "orbiting_body" THEN entry.orbiting_body
    ELSE IF \E i \in DOMAIN entry.relative_velocity :
                c = "relative_velocity_" \o entry.relative_velocity[i][1]
    THEN entry.relative_velocity[CHOOSE i \in DOMAIN entry.relative_velocity :
                c = "relative_velocity_" \o entry.relative_velocity[i][1]][2]
    ELSE entry.miss_distance[CHOOSE i \in DOMAIN entry.miss_distance :
                c = "miss_distance_" \o entry.miss_distance[i][1]][2]

\* every approach column any entry of any record could give
AnyApproachColumn ==
    UNION {ApproachColumns(rec.close_approach_data[i]) :
              <<rec, i>> \in {x \in Records \X (1..2) :
                                x[2] <= Len(x[1].close_approach_data)}}

\* the columns the schema gives a record: the general fields, one size column
\* per (unit, field), and the approach columns of its first close approach
ExpectedColumns(rec) ==
    GeneralFields
    \cup UNION {{"size_" \o rec.estimated_diameter[u][1] \o "_"
                    \o rec.estimated_diameter[u][2][f][1] :
                    f \in DOMAIN rec.estimated_diameter[u][2]} :
                u \in DOMAIN rec.estimated_diameter}
    \cup ApproachColumns(rec.close_approach_data[1])

\* the record a row of the returned table came from
RowRecord(r) == neos[origin[r][1]][2][origin[r][2]]

\* C1: a well-formed range of more than 7 days never reaches the fetch: the call
\* raises the range error, whose suggested end date is start + 7 days in the
\* form YYYY-MM-DD; no request is issued and the stored dates stay the supplied
\* ones (nothing is clamped).
C1_RangeTooLargeAborts ==
    (pc # "new" /\ BothWellFormed /\ Span > 7) =>
        /\ requests_get = <<>>
        /\ pc \in {"ready", "check", "raised"}
        /\ start_date = arg_start_date
        /\ finish_date = arg_finish_date
        /\ pc = "raised" =>
              /\ error.type = "ValueError"
              /\ error.kind = "range"
              /\ error.day_diff_days = Span
              /\ IsoShaped(error.alternative_end_date_str)
              /\ WellFormed(error.alternative_end_date_str)
              /\ ToOrdinal(StrPTime(error.alternative_end_date_str))
                    = ToOrdinal(StrPTime(start_date)) + 7

\* validate("2024-01-01", "2024-01-10") has failed, suggesting "2024-01-08"
C1_Witness ==
    /\ pc = "raised"
    /\ error.type = "ValueError"
    /\ error.kind = "range"
    /\ start_date = <<"2", "0", "2", "4", "-", "0", "1", "-", "0", "1">>
    /\ finish_date = <<"2", "0", "2", "4", "-", "0", "1", "-", "1", "0">>
    /\ error.alternative_end_date_str
          = <<"2", "0", "2", "4", "-", "0", "1", "-", "0", "8">>

\* C2: a well-formed range of 0 to 7 days raises nothing before the fetch, and
\* the one request carries exactly the supplied start and finish strings.
C2_RangeWithinLimitFetched ==
    (pc # "new" /\ BothWellFormed /\ Span >= 0 /\ Span <= 7) =>
        /\ pc \in {"ready", "check", "fetch"} => error = NoError /\ requests_get = <<>>
        /\ pc \notin {"ready", "check", "fetch"} =>
              /\ Len(requests_get) = 1
              /\ requests_get[1][2] = start_date
              /\ requests_get[1][4] = finish_date
        /\ BothSupplied => start_date = arg_start_date /\ finish_date = arg_finish_date

\* a supplied range of exactly 7 days has been fetched
C2_Witness ==
    /\ BothSupplied
    /\ BothWellFormed
    /\ Span = 7
    /\ Len(requests_get) = 1
    /\ requests_get[1][2] = arg_start_date
    /\ requests_get[1][4] = arg_finish_date

\* C3: every range for which the request is issued has finish >= start and a
\* span of at most 7 days.
C3_FetchedRangeIsOrdered ==
    requests_get # <<>> => BothWellFormed /\ Span >= 0 /\ Span <= 7

\* C4: the returned table has exactly one row per object record of the payload.
C4_OneRowPerRecord ==
    pc = "returned" => Len(result.value.rows) = RecordCount(neos)

\* C5: in the returned table, an approach cell of a row is empty or holds what
\* the FIRST close approach of the row's record gives that column, and each
\* record has a row holding all the values of its first close approach.
C5_FirstApproachWins ==
    pc = "returned" =>
        /\ \A r \in DOMAIN result.value.rows :
             \A c \in Range(result.value.columns) \cap AnyApproachColumn :
                result.value.rows[r][c] # NaN =>
                    /\ c \in ApproachColumns(RowRecord(r).close_approach_data[1])
                    /\ result.value.rows[r][c]
                          = ApproachValue(RowRecord(r).close_approach_data[1], c)
        /\ \A d \in DOMAIN neos : \A l \in DOMAIN neos[d][2] :
             \E r \in DOMAIN result.value.rows :
                /\ origin[r] = <<d, l>>
                /\ \A c \in ApproachColumns(neos[d][2][l].close_approach_data[1]) :
                      result.value.rows[r][c]
                          = ApproachValue(neos[d][2][l].close_approach_data[1], c)

\* a table with a row of a record that has two close approaches was returned
C5_Witness ==
    /\ pc = "returned"
    /\ \E r \in DOMAIN result.value.rows :
          /\ Len(RowRecord(r).close_approach_data) = 2
          /\ result.value.rows[r]["orbiting_body"] = "Earth"
          /\ result.value.rows[r]["relative_velocity_kilometers_per_second"] = "7.25"

\* C6: when any record of the payload lacks a general field or has no close
\* approach, the call never returns: it ends in an error and no table, not even
\* the rows of the records before, is handed to the caller.
C6_NoPartialTable ==
    /\ pc # "returned" => result = NoResult
    /\ (status_code = 200 /\ \E rec \in RecordsOf(neos) : Defective(rec)) =>
          /\ pc \in {"flatten", "raised"}
          /\ result = NoResult
          /\ pc = "raised" =>
                /\ error.type \in {"KeyError", "IndexError"}
                /\ clean_df = PdDataFrame

\* the flatten failed on a record after another one had been flattened
C6_Witness ==
    /\ pc = "raised"
    /\ error.type = "KeyError"
    /\ li > 1
    /\ ~Defective(neos[di][2][1])
    /\ result = NoResult

\* C7: the request is issued at most once; a status other than 200 ends the call
\* with an error carrying the status code, and nothing is flattened or returned
\* unless the status was 200.
C7_Non200IsFatal ==
    /\ Len(requests_get) <= 1
    /\ (pc \in {"flatten", "returned"} \/ neos # <<>> \/ clean_df # PdDataFrame
           \/ result # NoResult) => status_code = 200
    /\ status_code \notin {0, 200} =>
          /\ pc = "raised"
          /\ error.type = "ValueError"
          /\ error.kind = "status"
          /\ error.status_code = status_code
          /\ Len(requests_get) = 1

\* the fetch answered 429 and the call has ended
C7_Witness ==
    /\ status_code = 429
    /\ pc = "raised"
    /\ error.type = "ValueError"
    /\ error.kind = "status"

C9_SchemaStable ==
    pc = "returned" =>
        /\ Range(result.value.columns)
              = UNION {ExpectedColumns(rec) : rec \in RecordsOf(neos)}
        /\ Len(result.value.columns) = Cardinality(Range(result.value.columns))
        /\ \A r \in DOMAIN result.value.rows :
              DOMAIN result.value.rows[r] = Range(result.value.columns)

\* two records with the same keys and other values were flattened into a table
\* with the 13 columns of the example record
C9_Witness ==
    /\ pc = "returned"
    /\ neos = << <<"2024-01-01", <<RecA>> >>, <<"2024-01-02", <<RecTwoApproaches>> >> >>
    /\ Len(result.value.rows) = 2
    /\ Range(result.value.columns) = ExpectedColumns(RecA)
    /\ Cardinality(Range(result.value.columns)) = 13
    /\ result.value.rows[1]["size_kilometers_estimated_diameter_min"] = "0.1"
    /\ result.value.rows[2]["size_kilometers_estimated_diameter_min"] = "0.9"

\* C10: with a date absent at construction a warning is issued and both stored
\* dates are today and today + 7 days, a range of exactly 7 days that passes the
\* range check and is fetched; with both supplied they are stored as given; the
\* call changes none of api_key, start_date, finish_date.
C10_DefaultsAndStoredDates ==
    pc # "new" =>
        /\ api_key \in {<<key>> : key \in ApiKeys}
        /\ BothSupplied =>
              /\ ~warned
              /\ start_date = arg_start_date
              /\ finish_date = arg_finish_date
        /\ ~BothSupplied =>
              /\ warned
              /\ IsoShaped(start_date)
              /\ IsoShaped(finish_date)
              /\ BothWellFormed
              /\ ToOrdinal(StrPTime(start_date)) = ToOrdinal(today_dt)
              /\ ToOrdinal(StrPTime(finish_date)) = ToOrdinal(today_dt) + 7
              /\ pc # "ready" => day_diff_days = <<7>>
              /\ pc \in {"ready", "check", "fetch"} => error = NoError
              /\ pc \notin {"ready", "check", "fetch"} => Len(requests_get) = 1

\* only the start date was supplied: the range 2024-02-23 .. 2024-03-01 was
\* stored instead and has been fetched
C10_Witness ==
    /\ arg_start_date = <<"2", "0", "2", "4", "-", "0", "1", "-", "1", "0">>
    /\ arg_finish_date = None
    /\ warned
    /\ start_date = <<"2", "0", "2", "4", "-", "0", "2", "-", "2", "3">>
    /\ finish_date = <<"2", "0", "2", "4", "-", "0", "3", "-", "0", "1">>
    /\ pc = "flatten"
    /\ Len(requests_get) = 1

====
